---- MODULE Spec2Model ----
(***************************************************************************)
(* gotty: the server's Run loop (server/server.go, server/run_option.go)   *)
(* with its timer, listener and graceful-shutdown goroutines, and the      *)
(* browser-side controller WebTTY (js/src/webtty.ts) with the terminal     *)
(* adapter TermXterm (js/src/xterm.ts).                                    *)
(*                                                                         *)
(* The websocket handler built by generateHandleWS is registered at        *)
(* server.go (setupHandlers) but its body is not among the source files;   *)
(* HandleWS, SessionClose and the steps of a session's termination path   *)
(* (BackendExit, RemoteClose, PumpCancel, Release, SessionEnd) follow the  *)
(* specification's Access Gate and Session sections, and Base64Encode the  *)
(* specification's Frame Codec.                                            *)
(***************************************************************************)
EXTENDS Integers, Sequences, FiniteSets, TLC

\* ------------------------------------------------------------------ bounds
MaxSessions == 2        \* connection attempts the server sees
MaxConns == 2           \* calls of WebTTY.open()
MaxEvents == 2          \* terminal events and received frames per run
MaxReconnect == 1       \* largest SetReconnect payload

Sessions == 1..MaxSessions

\* error values of Run; "Torn" is the mixed interface value two unordered
\* writes of the shared variable err can leave behind
Nil == "nil"
ErrServerClosed == "http.ErrServerClosed"
ErrListen == "listen error"
ErrCanceled == "context.Canceled"
ErrSetup == "failed to setup an HTTP server"
ErrTorn == "torn"

VARIABLES
    \* ---- server (Go)
    options,        \* server.options: Once, Timeout, EnableTLSClientAuth
    caFileOK,       \* whether tlsConfig() can read and parse the CA file
    pc,             \* position of Run
    err,            \* Run's variable err, shared with the listener goroutine
    ret,            \* the value Run returned
    conn,           \* Run's local conn (atomic.LoadInt64(server.connections))
    cctxDone,       \* cctx.Done() is closed
    parentDone,     \* the ctx passed to Run is cancelled
    gracefulDone,   \* opts.gracefullCtx.Done() is closed
    timerPc,        \* timer goroutine: "none", "waiting", "fired", "exited"
    timerStarted,   \* number of time.NewTimer calls
    lsnPc,          \* listener goroutine: "none", "start", "serving", "send", "done"
    gracePc,        \* graceful goroutine: "none", "waiting", "shutdown", "exited"
    listenErr,      \* the buffered channel listenErr (capacity 1)
    listening,      \* the listener accepts connections
    srvClosed,      \* srv.Close() or srv.Shutdown() was called
    sess,           \* per connection attempt: "idle", "inflight", "active",
                    \*   "closed", "served" (turned away as already served)
    connections,    \* *server.connections
    once,           \* *server.once
    wg,             \* counter of server.wsWG
    session,        \* per admitted session: its two pumps, its own
                    \*   cancellation and the releases of its resources
    branch,         \* the case Run's select took: "none", "listenErr", "ctx"
    trigger,        \* the first event that initiated shutdown
    fired,          \* every shutdown-initiating event that happened
    \* ---- client (TypeScript)
    conns,          \* connections created by connectionFactory.create()
    reconnect,      \* WebTTY.reconnect: <<>> while undefined, else <<n>>
    inputHandlers,  \* callbacks on the terminal's "data" event, in order
    resizeHandlers, \* callbacks on the terminal's "resize" event, in order
    timeouts,       \* pending setTimeout entries
    windowOpens,    \* calls of the global open() (window.open)
    termWrites,     \* calls of Terminal.write
    title,          \* document.title
    prefs,          \* calls of Terminal.setPreferences
    message,        \* text of the message overlay, "" when none is shown
    messageTimer,   \* TermXterm.messageTimer is pending
    disconnects,    \* showMessage("disconnected", 0) calls
    events,         \* terminal events and frames consumed so far
    last,           \* the terminal event or frame consumed last
    uncaught        \* exceptions thrown out of the onReceive callback

srvVars == <<options, caFileOK, pc, err, ret, conn, cctxDone, parentDone,
             gracefulDone, timerPc, timerStarted, lsnPc, gracePc, listenErr,
             listening, srvClosed, sess, connections, once, wg, session,
             branch, trigger, fired>>
cliVars == <<conns, reconnect, inputHandlers, resizeHandlers, timeouts,
             windowOpens, termWrites, title, prefs, message, messageTimer,
             disconnects, events, last, uncaught>>
vars == <<srvVars, cliVars>>

\* ================================================================= server

\* New with the single-use flag already taken
NewOnceTaken == [connections |-> 0, once |-> 1]

\* New with the connection count starting at one
NewCountFromOne == [connections |-> 1, once |-> 0]

\* New: both counters start at zero.
New == [connections |-> 0, once |-> 0]

\* setupHTTPServer: fails only when TLS client auth is enabled and
\* tlsConfig() cannot read or parse the CA file.
setupHTTPServer ==
    IF options.EnableTLSClientAuth /\ ~caFileOK THEN ErrSetup ELSE Nil

\* history: the first shutdown-initiating event, and all of them
Initiate(t) ==
    /\ trigger' = IF trigger = "none" THEN t ELSE trigger
    /\ fired' = fired \cup {t}

\* A write of the interface variable err that is unordered with another
\* write of it leaves either the written value or a torn mix of the two.
WriteErr(v, racing) == IF racing THEN {v, ErrTorn} ELSE {v}

\* a Session: its inbound and outbound pumps ("none", "running",
\* "stopped"), whether its own cancellation scope (a child of cctx) is
\* cancelled, and how often its backend handle and its connection were
\* released
NoSession == [inbound |-> "none", outbound |-> "none", scope |-> FALSE,
              backend |-> 0, connection |-> 0]
Started == [inbound |-> "running", outbound |-> "running", scope |-> FALSE,
            backend |-> 0, connection |-> 0]
Ended == [inbound |-> "stopped", outbound |-> "stopped", scope |-> TRUE,
          backend |-> 1, connection |-> 1]

InitServer ==
    /\ options \in [Once : BOOLEAN, Timeout : {0, 1},
                    EnableTLSClientAuth : BOOLEAN]
    /\ caFileOK \in (IF options.EnableTLSClientAuth THEN BOOLEAN ELSE {TRUE})
    /\ pc = "start"
    /\ err = Nil
    /\ ret = "none"
    /\ conn = 0
    /\ cctxDone = FALSE
    /\ parentDone = FALSE
    /\ gracefulDone = FALSE
    /\ timerPc = "none"
    /\ timerStarted = 0
    /\ lsnPc = "none"
    /\ gracePc = "none"
    /\ listenErr = <<>>
    /\ listening = FALSE
    /\ srvClosed = FALSE
    /\ sess = [s \in Sessions |-> "idle"]
    /\ connections = New.connections
    /\ once = New.once
    /\ wg = 0
    /\ session = [s \in Sessions |-> NoSession]
    /\ branch = "none"
    /\ trigger = "none"
    /\ fired = {}

\* RunSetup starting the timer before the HTTP server is set up
RunSetupTimerFirst ==
    /\ pc = "start"
    /\ timerPc' = IF options.Timeout > 0 THEN "waiting" ELSE "none"
    /\ timerStarted' = IF options.Timeout > 0 THEN timerStarted + 1
                       ELSE timerStarted
    /\ IF setupHTTPServer # Nil
       THEN /\ pc' = "returned"
            /\ err' = setupHTTPServer
            /\ ret' = setupHTTPServer
            /\ UNCHANGED <<lsnPc, gracePc>>
       ELSE /\ pc' = "select"
            /\ lsnPc' = "start"
            /\ gracePc' = "waiting"
            /\ UNCHANGED <<err, ret>>
    /\ UNCHANGED <<options, caFileOK, session, conn, cctxDone, parentDone,
                   gracefulDone, listenErr, listening, srvClosed, sess,
                   connections, once, wg, branch, trigger, fired, cliVars>>

\* Run up to the select: setup, then the timer (when Timeout > 0), the
\* listener goroutine and the graceful goroutine are started.
RunSetup ==
    /\ pc = "start"
    /\ IF setupHTTPServer # Nil
       THEN /\ pc' = "returned"
            /\ err' = setupHTTPServer
            /\ ret' = setupHTTPServer
            /\ UNCHANGED <<timerPc, timerStarted, lsnPc, gracePc>>
       ELSE /\ pc' = "select"
            /\ timerPc' = IF options.Timeout > 0 THEN "waiting" ELSE "none"
            /\ timerStarted' = IF options.Timeout > 0 THEN timerStarted + 1
                               ELSE timerStarted
            /\ lsnPc' = "start"
            /\ gracePc' = "waiting"
            /\ UNCHANGED <<err, ret>>
    /\ UNCHANGED <<options, caFileOK, session, conn, cctxDone, parentDone, gracefulDone,
                   listenErr, listening, srvClosed, sess, connections, once,
                   wg, branch, trigger, fired, cliVars>>

\* The caller cancels the ctx passed to Run; cctx is its child.
ParentCancel ==
    /\ ~parentDone
    /\ pc # "returned"
    /\ parentDone' = TRUE
    /\ cctxDone' = TRUE
    /\ Initiate("parent")
    /\ UNCHANGED <<options, caFileOK, session, pc, err, ret, conn, gracefulDone, timerPc,
                   timerStarted, lsnPc, gracePc, listenErr, listening,
                   srvClosed, sess, connections, once, wg, branch,
                   cliVars>>

\* The caller cancels the graceful context (seen only by the waiting
\* graceful goroutine).
GracefulSignal ==
    /\ ~gracefulDone
    /\ gracePc = "waiting"
    /\ gracefulDone' = TRUE
    /\ UNCHANGED <<options, caFileOK, session, pc, err, ret, conn, cctxDone, parentDone,
                   timerPc, timerStarted, lsnPc, gracePc, listenErr, listening,
                   srvClosed, sess, connections, once, wg, branch, trigger,
                   fired, cliVars>>

\* TimerFire cancelling only an idle server
TimerFireIdleOnly ==
    /\ timerPc = "waiting"
    /\ timerPc' = "fired"
    /\ IF connections = 0
       THEN cctxDone' = TRUE /\ Initiate("timer")
       ELSE UNCHANGED <<cctxDone, trigger, fired>>
    /\ UNCHANGED <<options, caFileOK, session, pc, err, ret, conn, parentDone,
                   gracefulDone, timerStarted, lsnPc, gracePc, listenErr,
                   listening, srvClosed, sess, connections, once, wg, branch, cliVars>>

\* TimerFire as a timer callback that is not stopped when the waiter exits
TimerFireAfterExit ==
    /\ timerPc \in {"waiting", "exited"}
    /\ timerPc' = "fired"
    /\ cctxDone' = TRUE
    /\ Initiate("timer")
    /\ UNCHANGED <<options, caFileOK, session, pc, err, ret, conn, parentDone,
                   gracefulDone, timerStarted, lsnPc, gracePc, listenErr,
                   listening, srvClosed, sess, connections, once, wg, branch, cliVars>>

\* ---- timer goroutine: case <-server.timer.C: cancel()
TimerFire ==
    /\ timerPc = "waiting"
    /\ timerPc' = "fired"
    /\ cctxDone' = TRUE
    /\ Initiate("timer")
    /\ UNCHANGED <<options, caFileOK, session, pc, err, ret, conn, parentDone,
                   gracefulDone, timerStarted, lsnPc, gracePc, listenErr,
                   listening, srvClosed, sess, connections, once, wg, branch, cliVars>>

\* ---- timer goroutine: case <-cctx.Done():
TimerExit ==
    /\ timerPc = "waiting"
    /\ cctxDone
    /\ timerPc' = "exited"
    /\ UNCHANGED <<options, caFileOK, session, pc, err, ret, conn, cctxDone, parentDone,
                   gracefulDone, timerStarted, lsnPc, gracePc, listenErr,
                   listening, srvClosed, sess, connections, once, wg, branch,
                   trigger, fired, cliVars>>

\* ---- graceful goroutine: case <-opts.gracefullCtx.Done(): srv.Shutdown(...)
\* Shutdown closes the listener and leaves requests in flight alone.
GraceShutdown ==
    /\ gracePc = "waiting"
    /\ gracefulDone
    /\ gracePc' = "shutdown"
    /\ srvClosed' = TRUE
    /\ listening' = FALSE
    /\ Initiate("graceful")
    /\ UNCHANGED <<options, caFileOK, session, pc, err, ret, conn, cctxDone, parentDone,
                   gracefulDone, timerPc, timerStarted, lsnPc, listenErr, sess,
                   connections, once, wg, branch, cliVars>>

\* ---- graceful goroutine: case <-cctx.Done():
GraceExit ==
    /\ gracePc = "waiting"
    /\ cctxDone
    /\ gracePc' = "exited"
    /\ UNCHANGED <<options, caFileOK, session, pc, err, ret, conn, cctxDone, parentDone,
                   gracefulDone, timerPc, timerStarted, lsnPc, listenErr,
                   listening, srvClosed, sess, connections, once, wg, branch,
                   trigger, fired, cliVars>>

\* ---- listener goroutine: ListenAndServe binds and starts accepting
LsnListen ==
    /\ lsnPc = "start"
    /\ ~srvClosed
    /\ lsnPc' = "serving"
    /\ listening' = TRUE
    /\ UNCHANGED <<options, caFileOK, session, pc, err, ret, conn, cctxDone, parentDone,
                   gracefulDone, timerPc, timerStarted, gracePc, listenErr,
                   srvClosed, sess, connections, once, wg, branch, trigger,
                   fired, cliVars>>

\* the listener's write of err is unordered with Run's write in the
\* cctx.Done() branch
LsnRaces == branch = "ctx" /\ pc \in {"load", "wait", "returned"}

\* ---- listener goroutine: err = srv.ListenAndServe() after Close/Shutdown
LsnClosed ==
    /\ lsnPc \in {"start", "serving"}
    /\ srvClosed
    /\ lsnPc' = "send"
    /\ err' \in WriteErr(ErrServerClosed, LsnRaces)
    /\ UNCHANGED <<options, caFileOK, session, pc, ret, conn, cctxDone, parentDone,
                   gracefulDone, timerPc, timerStarted, gracePc, listenErr,
                   listening, srvClosed, sess, connections, once, wg, branch,
                   trigger, fired, cliVars>>

\* ---- listener goroutine: err = srv.ListenAndServe() failing by itself
\* (bind or accept error)
LsnFail ==
    /\ lsnPc \in {"start", "serving"}
    /\ ~srvClosed
    /\ lsnPc' = "send"
    /\ listening' = FALSE
    /\ err' \in WriteErr(ErrListen, LsnRaces)
    /\ Initiate("listener")
    /\ UNCHANGED <<options, caFileOK, session, pc, ret, conn, cctxDone, parentDone,
                   gracefulDone, timerPc, timerStarted, gracePc, listenErr,
                   srvClosed, sess, connections, once, wg, branch,
                   cliVars>>

\* LsnSend on an unbuffered channel: the send needs Run to be receiving
LsnSendUnbuffered ==
    /\ lsnPc = "send"
    /\ IF err # Nil
       THEN /\ pc = "select"
            /\ Len(listenErr) < 1
            /\ listenErr' = Append(listenErr, err)
       ELSE UNCHANGED listenErr
    /\ lsnPc' = "done"
    /\ UNCHANGED <<options, caFileOK, session, pc, err, ret, conn, cctxDone,
                   parentDone, gracefulDone, timerPc, timerStarted, gracePc,
                   listening, srvClosed, sess, connections, once, wg, branch,
                   trigger, fired, cliVars>>

\* ---- listener goroutine: if err != nil { listenErr <- err }
LsnSend ==
    /\ lsnPc = "send"
    /\ IF err # Nil
       THEN /\ Len(listenErr) < 1
            /\ listenErr' = Append(listenErr, err)
       ELSE UNCHANGED listenErr
    /\ lsnPc' = "done"
    /\ UNCHANGED <<options, caFileOK, session, pc, err, ret, conn, cctxDone, parentDone,
                   gracefulDone, timerPc, timerStarted, gracePc, listening,
                   srvClosed, sess, connections, once, wg, branch, trigger,
                   fired, cliVars>>

\* MainRecv without the call of cancel() on a listener failure
MainRecvNoCancel ==
    /\ pc = "select"
    /\ listenErr # <<>>
    /\ listenErr' = Tail(listenErr)
    /\ branch' = "listenErr"
    /\ err' = IF Head(listenErr) = ErrServerClosed THEN Nil
              ELSE Head(listenErr)
    /\ pc' = "load"
    /\ UNCHANGED <<options, caFileOK, session, ret, conn, cctxDone, parentDone,
                   gracefulDone, timerPc, timerStarted, lsnPc, gracePc,
                   listening, srvClosed, sess, connections, once, wg, trigger,
                   fired, cliVars>>

\* MainRecv reporting http.ErrServerClosed like any other listener error
MainRecvNoClosedCheck ==
    /\ pc = "select"
    /\ listenErr # <<>>
    /\ listenErr' = Tail(listenErr)
    /\ branch' = "listenErr"
    /\ err' = Head(listenErr)
    /\ cctxDone' = TRUE
    /\ pc' = "load"
    /\ UNCHANGED <<options, caFileOK, session, ret, conn, parentDone, gracefulDone,
                   timerPc, timerStarted, lsnPc, gracePc, listening, srvClosed,
                   sess, connections, once, wg, trigger, fired,
                   cliVars>>

\* ---- Run: case err = <-listenErr
MainRecv ==
    /\ pc = "select"
    /\ listenErr # <<>>
    /\ listenErr' = Tail(listenErr)
    /\ branch' = "listenErr"
    /\ IF Head(listenErr) = ErrServerClosed
       THEN /\ err' = Nil
            /\ UNCHANGED cctxDone
       ELSE /\ err' = Head(listenErr)
            /\ cctxDone' = TRUE
    /\ pc' = "load"
    /\ UNCHANGED <<options, caFileOK, session, ret, conn, parentDone, gracefulDone,
                   timerPc, timerStarted, lsnPc, gracePc, listening, srvClosed,
                   sess, connections, once, wg, trigger, fired,
                   cliVars>>

\* MainCtxClose without the call of srv.Close()
MainCtxNoClose ==
    /\ pc = "select"
    /\ cctxDone
    /\ branch' = "ctx"
    /\ pc' = "ctxerr"
    /\ UNCHANGED <<options, caFileOK, session, err, ret, conn, cctxDone, parentDone,
                   gracefulDone, timerPc, timerStarted, lsnPc, gracePc,
                   listenErr, listening, srvClosed, sess, connections, once,
                   wg, trigger, fired, cliVars>>

\* ---- Run: case <-cctx.Done(): srv.Close()
MainCtxClose ==
    /\ pc = "select"
    /\ cctxDone
    /\ branch' = "ctx"
    /\ srvClosed' = TRUE
    /\ listening' = FALSE
    /\ pc' = "ctxerr"
    /\ UNCHANGED <<options, caFileOK, session, err, ret, conn, cctxDone, parentDone,
                   gracefulDone, timerPc, timerStarted, lsnPc, gracePc,
                   listenErr, sess, connections, once, wg, trigger, fired, cliVars>>

\* ---- Run: err = cctx.Err()
MainCtxErr ==
    /\ pc = "ctxerr"
    /\ err' \in WriteErr(ErrCanceled, lsnPc \in {"send", "done"})
    /\ pc' = "load"
    /\ UNCHANGED <<options, caFileOK, session, ret, conn, cctxDone, parentDone,
                   gracefulDone, timerPc, timerStarted, lsnPc, gracePc,
                   listenErr, listening, srvClosed, sess, connections, once,
                   wg, branch, trigger, fired, cliVars>>

\* ---- Run: conn := atomic.LoadInt64(server.connections)
MainLoad ==
    /\ pc = "load"
    /\ conn' = connections
    /\ pc' = "wait"
    /\ UNCHANGED <<options, caFileOK, session, err, ret, cctxDone, parentDone,
                   gracefulDone, timerPc, timerStarted, lsnPc, gracePc,
                   listenErr, listening, srvClosed, sess, connections, once,
                   wg, branch, trigger, fired, cliVars>>

\* ---- Run: server.wsWG.Wait(); return err
MainWait ==
    /\ pc = "wait"
    /\ wg = 0
    /\ ret' = err
    /\ pc' = "returned"
    /\ UNCHANGED <<options, caFileOK, session, err, conn, cctxDone, parentDone,
                   gracefulDone, timerPc, timerStarted, lsnPc, gracePc,
                   listenErr, listening, srvClosed, sess, connections, once,
                   wg, branch, trigger, fired, cliVars>>

\* ---- net/http: the listener accepts a connection and starts the handler
\* registered by setupHandlers in a goroutine of its own
Accept(s) ==
    /\ sess[s] = "idle"
    /\ \A t \in Sessions : t < s => sess[t] # "idle"
    /\ listening
    /\ sess' = [sess EXCEPT ![s] = "inflight"]
    /\ UNCHANGED <<options, caFileOK, session, pc, err, ret, conn, cctxDone, parentDone,
                   gracefulDone, timerPc, timerStarted, lsnPc, gracePc,
                   listenErr, listening, srvClosed, connections, once, wg,
                   branch, trigger, fired, cliVars>>

\* ---- the handler of url.Path+"ws" (setupHandlers puts it beside, not
\* behind, the basic-auth wrapper): the single-use check, then registration
HandleWS(s) ==
    /\ sess[s] = "inflight"
    /\ IF options.Once /\ once # 0
       THEN /\ sess' = [sess EXCEPT ![s] = "served"]
            /\ UNCHANGED <<once, wg, connections, session>>
       ELSE /\ once' = IF options.Once THEN 1 ELSE once
            /\ wg' = wg + 1
            /\ connections' = connections + 1
            /\ sess' = [sess EXCEPT ![s] = "active"]
            /\ session' = [session EXCEPT ![s] = Started]
    /\ UNCHANGED <<options, caFileOK, pc, err, ret, conn, cctxDone, parentDone,
                   gracefulDone, timerPc, timerStarted, lsnPc, gracePc,
                   listenErr, listening, srvClosed, branch, trigger, fired,
                   cliVars>>

\* ---- a session ends (backend exit, remote close or cancellation) and
\* deregisters: its whole termination path taken as one step
SessionClose(s) ==
    /\ sess[s] = "active"
    /\ session[s] = Started
    /\ session' = [session EXCEPT ![s] = Ended]
    /\ sess' = [sess EXCEPT ![s] = "closed"]
    /\ wg' = wg - 1
    /\ connections' = connections - 1
    /\ UNCHANGED <<options, caFileOK, pc, err, ret, conn, cctxDone, parentDone,
                   gracefulDone, timerPc, timerStarted, lsnPc, gracePc,
                   listenErr, listening, srvClosed, once, branch, trigger,
                   fired, cliVars>>

\* ---- the steps of a session's termination path, one at a time

Pumps == {"inbound", "outbound"}

\* the scope the two pumps of a session share is cancelled: by the session
\* itself or through cctx, its parent
ScopeDone(s) == cctxDone \/ session[s].scope

\* (a) the backend process exits: the outbound pump reads the end of its
\* output, stops and cancels the session's scope
BackendExit(s) ==
    /\ sess[s] = "active"
    /\ session[s].outbound = "running"
    /\ session' = [session EXCEPT ![s].outbound = "stopped", ![s].scope = TRUE]
    /\ UNCHANGED <<options, caFileOK, pc, err, ret, conn, cctxDone, parentDone,
                   gracefulDone, timerPc, timerStarted, lsnPc, gracePc,
                   listenErr, listening, srvClosed, sess, connections, once,
                   wg, branch, trigger, fired, cliVars>>

\* (b) the remote closes the connection: the inbound pump stops and cancels
\* the session's scope
RemoteClose(s) ==
    /\ sess[s] = "active"
    /\ session[s].inbound = "running"
    /\ session' = [session EXCEPT ![s].inbound = "stopped", ![s].scope = TRUE]
    /\ UNCHANGED <<options, caFileOK, pc, err, ret, conn, cctxDone, parentDone,
                   gracefulDone, timerPc, timerStarted, lsnPc, gracePc,
                   listenErr, listening, srvClosed, sess, connections, once,
                   wg, branch, trigger, fired, cliVars>>

\* PumpCancel with an outbound pump whose blocking read of the backend
\* outlives the cancellation
PumpCancelInboundOnly(s, p) ==
    /\ sess[s] = "active"
    /\ ScopeDone(s)
    /\ p = "inbound"
    /\ session[s][p] = "running"
    /\ session' = [session EXCEPT ![s][p] = "stopped"]
    /\ UNCHANGED <<options, caFileOK, pc, err, ret, conn, cctxDone, parentDone,
                   gracefulDone, timerPc, timerStarted, lsnPc, gracePc,
                   listenErr, listening, srvClosed, sess, connections, once,
                   wg, branch, trigger, fired, cliVars>>

\* (c) a pump whose scope is cancelled stops, whatever it is blocked on
\* (also the outbound pump of a backend that is silent)
PumpCancel(s, p) ==
    /\ sess[s] = "active"
    /\ ScopeDone(s)
    /\ session[s][p] = "running"
    /\ session' = [session EXCEPT ![s][p] = "stopped"]
    /\ UNCHANGED <<options, caFileOK, pc, err, ret, conn, cctxDone, parentDone,
                   gracefulDone, timerPc, timerStarted, lsnPc, gracePc,
                   listenErr, listening, srvClosed, sess, connections, once,
                   wg, branch, trigger, fired, cliVars>>

\* both pumps have stopped: the backend handle and the connection are
\* released, once
Release(s) ==
    /\ sess[s] = "active"
    /\ session[s].inbound = "stopped"
    /\ session[s].outbound = "stopped"
    /\ session[s].backend = 0
    /\ session[s].connection = 0
    /\ session' = [session EXCEPT ![s].backend = 1, ![s].connection = 1]
    /\ UNCHANGED <<options, caFileOK, pc, err, ret, conn, cctxDone, parentDone,
                   gracefulDone, timerPc, timerStarted, lsnPc, gracePc,
                   listenErr, listening, srvClosed, sess, connections, once,
                   wg, branch, trigger, fired, cliVars>>

\* the released session deregisters
SessionEnd(s) ==
    /\ sess[s] = "active"
    /\ session[s].backend > 0
    /\ session[s].connection > 0
    /\ sess' = [sess EXCEPT ![s] = "closed"]
    /\ wg' = wg - 1
    /\ connections' = connections - 1
    /\ UNCHANGED <<options, caFileOK, session, pc, err, ret, conn, cctxDone,
                   parentDone, gracefulDone, timerPc, timerStarted, lsnPc,
                   gracePc, listenErr, listening, srvClosed, once, branch,
                   trigger, fired, cliVars>>

\* ================================================================= client

\* frame kinds (webtty.ts)
Input == "1"
ResizeTerminal == "3"
Output == "1"
Pong == "2"
SetWindowTitle == "3"
SetPreferences == "4"
SetReconnect == "5"

\* the first message of a connection: JSON of {Arguments, AuthToken}
Handshake == [kind |-> "handshake", text |-> "{Arguments, AuthToken}",
              cols |-> 0, rows |-> 0]

\* Input + input
InputFrame(input) == [kind |-> Input, text |-> input, cols |-> 0, rows |-> 0]

\* ResizeTerminal + JSON of {columns, rows}
ResizeFrame(columns, rows) ==
    [kind |-> ResizeTerminal, text |-> "", cols |-> columns, rows |-> rows]

\* chunks of backend output: empty, "A", U+00E9 in UTF-8, its first byte
\* alone, "A" followed by a stray continuation byte, NUL, U+20AC in UTF-8
\* and the byte 255
ByteSeqs == {<<>>, <<65>>, <<195, 169>>, <<195>>, <<65, 169>>, <<0>>,
             <<226, 130, 172>>, <<255>>}

\* A base64 text is a sequence of its characters' values: 0..63 for the
\* alphabet A-Z a-z 0-9 + /, and Pad for "=".
Pad == 64

\* the server's encoding of an Output payload: standard base64 with padding
RECURSIVE Base64Encode(_)
Base64Encode(bs) ==
    IF bs = <<>> THEN <<>>
    ELSE IF Len(bs) = 1
    THEN <<bs[1] \div 4, (bs[1] % 4) * 16, Pad, Pad>>
    ELSE IF Len(bs) = 2
    THEN <<bs[1] \div 4, (bs[1] % 4) * 16 + bs[2] \div 16,
           (bs[2] % 16) * 4, Pad>>
    ELSE <<bs[1] \div 4, (bs[1] % 4) * 16 + bs[2] \div 16,
           (bs[2] % 16) * 4 + bs[3] \div 64, bs[3] % 64>>
         \o Base64Encode(SubSeq(bs, 4, Len(bs)))

\* atob(payload): the binary string (one character code per byte) a base64
\* text stands for
RECURSIVE atob(_)
atob(s) ==
    IF Len(s) < 4 THEN <<>>
    ELSE <<s[1] * 4 + s[2] \div 16>>
         \o (IF s[3] = Pad THEN <<>>
             ELSE <<(s[2] % 16) * 16 + s[3] \div 4>>
                  \o (IF s[4] = Pad THEN <<>>
                      ELSE <<(s[3] % 4) * 64 + s[4]>>))
         \o atob(SubSeq(s, 5, Len(s)))

\* '%' + ('00' + c.charCodeAt(0).toString(16)).slice(-2) for every character
\* of the binary string: one escape (two hexadecimal digits) per character
PercentEscape(str) ==
    [i \in 1..Len(str) |->
        LET hex == IF str[i] < 16 THEN <<str[i]>>
                   ELSE <<str[i] \div 16, str[i] % 16>>
            padded == <<0, 0>> \o hex
        IN SubSeq(padded, Len(padded) - 1, Len(padded))]

IsCont(b) == b >= 128 /\ b <= 191

\* the UTF-8 decoding decodeURIComponent applies to the escaped bytes bs; ok
\* is FALSE when bs is not well-formed UTF-8 (URIError is thrown)
RECURSIVE Utf8Decode(_)
Utf8Decode(bs) ==
    IF bs = <<>> THEN [ok |-> TRUE, text |-> <<>>]
    ELSE LET b == Head(bs)
             n == IF b < 128 THEN 1
                  ELSE IF b >= 194 /\ b <= 223 THEN 2
                  ELSE IF b >= 224 /\ b <= 239 THEN 3
                  ELSE IF b >= 240 /\ b <= 244 THEN 4
                  ELSE 0
         IN IF n = 0 \/ Len(bs) < n
               \/ \E i \in 2..n : ~IsCont(bs[i])
            THEN [ok |-> FALSE, text |-> <<>>]
            ELSE LET cp == IF n = 1 THEN b
                           ELSE IF n = 2 THEN (b - 192) * 64 + (bs[2] - 128)
                           ELSE IF n = 3 THEN (b - 224) * 4096
                                    + (bs[2] - 128) * 64 + (bs[3] - 128)
                           ELSE (b - 240) * 262144 + (bs[2] - 128) * 4096
                                    + (bs[3] - 128) * 64 + (bs[4] - 128)
                     rest == Utf8Decode(SubSeq(bs, n + 1, Len(bs)))
                     bad == \/ (n = 3 /\ (cp < 2048 \/ (cp >= 55296 /\ cp <= 57343)))
                            \/ (n = 4 /\ (cp < 65536 \/ cp > 1114111))
                 IN IF bad \/ ~rest.ok THEN [ok |-> FALSE, text |-> <<>>]
                    ELSE [ok |-> TRUE, text |-> <<cp>> \o rest.text]

\* decodeURIComponent(escaped): every escape is one byte, and the bytes are
\* decoded as UTF-8
decodeURIComponent(escaped) ==
    Utf8Decode([i \in 1..Len(escaped) |-> escaped[i][1] * 16 + escaped[i][2]])

\* frames the server side can put on the wire, by first character
\* (bytes: the base64 payload of an Output frame; text: the payload as it
\* is; num: the payload after JSON.parse)
Frames ==
    {[kind |-> Output, bytes |-> Base64Encode(b), text |-> "", num |-> 0] :
        b \in ByteSeqs}
    \cup {[kind |-> SetWindowTitle, bytes |-> <<>>, text |-> t, num |-> 0] :
             t \in {"sh"}}
    \cup {[kind |-> SetReconnect, bytes |-> <<>>, text |-> "", num |-> n] :
             n \in (-1)..MaxReconnect}
    \cup {[kind |-> k, bytes |-> <<>>, text |-> "", num |-> 0] :
             k \in {Pong, SetPreferences, "0", "9"}}

\* nothing consumed yet
NoData == [kind |-> "", bytes |-> <<>>, text |-> "", num |-> 0]

InitClient ==
    /\ conns = <<>>
    /\ reconnect = <<>>
    /\ inputHandlers = <<>>
    /\ resizeHandlers = <<>>
    /\ timeouts = <<>>
    /\ windowOpens = 0
    /\ termWrites = <<>>
    /\ title = ""
    /\ prefs = 0
    /\ message = ""
    /\ messageTimer = FALSE
    /\ disconnects = 0
    /\ events = 0
    /\ last = [src |-> "none", data |-> NoData]
    /\ uncaught = 0

\* connection.send(frame): transmitted on an open connection, lost otherwise
Send(cs, c, frame) ==
    IF cs[c].state = "open"
    THEN [cs EXCEPT ![c].sent = Append(@, frame)]
    ELSE [cs EXCEPT ![c].lost = @ + 1]

\* every registered callback runs, in registration order, each sending on
\* the connection its closure captured
RECURSIVE SendAll(_, _, _)
SendAll(cs, hs, frame) ==
    IF hs = <<>> THEN cs
    ELSE SendAll(Send(cs, Head(hs), frame), Tail(hs), frame)

\* WebTTY.open(): create a connection, register the three callbacks on it,
\* connection.open()
WebTTYOpen ==
    conns' = Append(conns, [state |-> "opening", sent |-> <<>>, lost |-> 0])

\* a caller (main.ts) calls wt.open()
Open ==
    /\ Len(conns) < MaxConns
    /\ WebTTYOpen
    /\ UNCHANGED <<reconnect, inputHandlers, resizeHandlers, timeouts,
                   windowOpens, termWrites, title, prefs, message,
                   messageTimer, disconnects, events, last, uncaught,
                   srvVars>>

\* OnOpen wiring the terminal's events without sending the handshake
OnOpenNoHandshake(c) ==
    /\ conns[c].state = "opening"
    /\ conns' = [conns EXCEPT ![c].state = "open"]
    /\ resizeHandlers' = Append(resizeHandlers, c)
    /\ inputHandlers' = Append(inputHandlers, c)
    /\ UNCHANGED <<reconnect, timeouts, windowOpens, termWrites, title, prefs,
                   message, messageTimer, disconnects, events, last, uncaught,
                   srvVars>>

\* connection.onOpen callback: handshake, then term.onResize and
\* term.onInput each add one more listener to the terminal
OnOpen(c) ==
    /\ conns[c].state = "opening"
    /\ conns' = [conns EXCEPT ![c].state = "open",
                              ![c].sent = Append(@, Handshake)]
    /\ resizeHandlers' = Append(resizeHandlers, c)
    /\ inputHandlers' = Append(inputHandlers, c)
    /\ UNCHANGED <<reconnect, timeouts, windowOpens, termWrites, title, prefs,
                   message, messageTimer, disconnects, events, last, uncaught,
                   srvVars>>

\* OnReceive closing the connection on a first character it does not know
OnReceiveStrict(c, data) ==
    /\ conns[c].state = "open"
    /\ events < MaxEvents
    /\ events' = events + 1
    /\ last' = [src |-> "frame", data |-> data]
    /\ LET decoded == decodeURIComponent(PercentEscape(atob(data.bytes)))
       IN IF data.kind = Output
          THEN IF decoded.ok
               THEN /\ termWrites' = Append(termWrites, decoded.text)
                    /\ UNCHANGED uncaught
               ELSE /\ uncaught' = uncaught + 1
                    /\ UNCHANGED termWrites
          ELSE UNCHANGED <<termWrites, uncaught>>
    /\ title' = IF data.kind = SetWindowTitle THEN data.text ELSE title
    /\ prefs' = IF data.kind = SetPreferences THEN prefs + 1 ELSE prefs
    /\ reconnect' = IF data.kind = SetReconnect THEN <<data.num>>
                    ELSE reconnect
    /\ conns' = IF data.kind \in {Output, Pong, SetWindowTitle, SetPreferences,
                                  SetReconnect}
                THEN conns
                ELSE [conns EXCEPT ![c].state = "closed"]
    /\ UNCHANGED <<inputHandlers, resizeHandlers, timeouts, windowOpens,
                   message, messageTimer, disconnects, srvVars>>

\* connection.onReceive callback
OnReceive(c, data) ==
    /\ conns[c].state = "open"
    /\ events < MaxEvents
    /\ events' = events + 1
    /\ last' = [src |-> "frame", data |-> data]
    /\ LET decoded == decodeURIComponent(PercentEscape(atob(data.bytes)))
       IN IF data.kind = Output
          THEN IF decoded.ok
               THEN /\ termWrites' = Append(termWrites, decoded.text)
                    /\ UNCHANGED uncaught
               ELSE /\ uncaught' = uncaught + 1
                    /\ UNCHANGED termWrites
          ELSE UNCHANGED <<termWrites, uncaught>>
    /\ title' = IF data.kind = SetWindowTitle THEN data.text ELSE title
    /\ prefs' = IF data.kind = SetPreferences THEN prefs + 1 ELSE prefs
    /\ reconnect' = IF data.kind = SetReconnect THEN <<data.num>>
                    ELSE reconnect
    /\ UNCHANGED <<conns, inputHandlers, resizeHandlers, timeouts, windowOpens,
                   message, messageTimer, disconnects, srvVars>>

\* the identifier open in setTimeout(open, ...) is not a member access:
\* it resolves to the global function open (window.open)
ScheduledCallback == "window.open"

\* OnClose showing the indication only when no retry is scheduled
OnCloseQuietRetry(c) ==
    /\ conns[c].state \in {"opening", "open"}
    /\ conns' = [conns EXCEPT ![c].state = "closed"]
    /\ IF reconnect # <<>> /\ reconnect[1] > 0
       THEN /\ timeouts' = Append(timeouts, [callback |-> ScheduledCallback,
                                             delay |-> reconnect[1] * 1000])
            /\ UNCHANGED <<message, disconnects>>
       ELSE /\ message' = "disconnected"
            /\ disconnects' = disconnects + 1
            /\ UNCHANGED timeouts
    /\ UNCHANGED <<reconnect, inputHandlers, resizeHandlers, windowOpens,
                   termWrites, title, prefs, messageTimer, events, last,
                   uncaught, srvVars>>

\* connection.onClose callback
OnClose(c) ==
    /\ conns[c].state \in {"opening", "open"}
    /\ conns' = [conns EXCEPT ![c].state = "closed"]
    /\ message' = "disconnected"
    /\ disconnects' = disconnects + 1
    /\ timeouts' =
         IF reconnect # <<>> /\ reconnect[1] > 0
         THEN Append(timeouts, [callback |-> ScheduledCallback,
                                delay |-> reconnect[1] * 1000])
         ELSE timeouts
    /\ UNCHANGED <<reconnect, inputHandlers, resizeHandlers, windowOpens,
                   termWrites, title, prefs, messageTimer, events, last,
                   uncaught, srvVars>>

\* a pending setTimeout entry fires and runs its callback
TimeoutFire(i) ==
    /\ i \in 1..Len(timeouts)
    /\ timeouts' = SubSeq(timeouts, 1, i - 1)
                     \o SubSeq(timeouts, i + 1, Len(timeouts))
    /\ IF timeouts[i].callback = "WebTTY.open"
       THEN WebTTYOpen /\ UNCHANGED windowOpens
       ELSE windowOpens' = windowOpens + 1 /\ UNCHANGED conns
    /\ UNCHANGED <<reconnect, inputHandlers, resizeHandlers, termWrites, title,
                   prefs, message, messageTimer, disconnects, events, last,
                   uncaught, srvVars>>

\* the terminal emits "data": TermXterm.onInput's listeners call back
TermInput(input) ==
    /\ events < MaxEvents
    /\ events' = events + 1
    /\ last' = [src |-> "input",
                data |-> [kind |-> Input, bytes |-> <<>>, text |-> input,
                          num |-> 0]]
    /\ conns' = SendAll(conns, inputHandlers, InputFrame(input))
    /\ UNCHANGED <<reconnect, inputHandlers, resizeHandlers, timeouts,
                   windowOpens, termWrites, title, prefs, message,
                   messageTimer, disconnects, uncaught, srvVars>>

\* String(data.cols) + " x " + String(data.rows)
SizeText(cols, rows) ==
    IF cols = 80 /\ rows = 24 THEN "80 x 24"
    ELSE IF cols = 100 /\ rows = 40 THEN "100 x 40"
    ELSE "? x ?"

\* the terminal emits "resize": each of TermXterm.onResize's listeners
\* shows the size for messageTimeout ms and calls back
TermResize(cols, rows) ==
    /\ events < MaxEvents
    /\ events' = events + 1
    /\ last' = [src |-> "resize",
                data |-> [kind |-> ResizeTerminal, bytes |-> <<cols, rows>>,
                          text |-> "", num |-> 0]]
    /\ conns' = SendAll(conns, resizeHandlers, ResizeFrame(cols, rows))
    /\ IF resizeHandlers # <<>>
       THEN message' = SizeText(cols, rows) /\ messageTimer' = TRUE
       ELSE UNCHANGED <<message, messageTimer>>
    /\ UNCHANGED <<reconnect, inputHandlers, resizeHandlers, timeouts,
                   windowOpens, termWrites, title, prefs, disconnects,
                   uncaught, srvVars>>

\* TermXterm.messageTimer fires: the overlay is removed
MessageTimeout ==
    /\ messageTimer
    /\ messageTimer' = FALSE
    /\ message' = ""
    /\ UNCHANGED <<conns, reconnect, inputHandlers, resizeHandlers, timeouts,
                   windowOpens, termWrites, title, prefs, disconnects, events,
                   last, uncaught, srvVars>>

\* ========================================================= specifications

Init == InitServer /\ InitClient

Next ==
    \/ RunSetup
    \/ ParentCancel
    \/ GracefulSignal
    \/ TimerFire
    \/ TimerExit
    \/ GraceShutdown
    \/ GraceExit
    \/ LsnListen
    \/ LsnClosed
    \/ LsnFail
    \/ LsnSend
    \/ MainRecv
    \/ MainCtxClose
    \/ MainCtxErr
    \/ MainLoad
    \/ MainWait
    \/ \E s \in Sessions : Accept(s)
    \/ \E s \in Sessions : HandleWS(s)
    \/ \E s \in Sessions : SessionClose(s)

Spec == Init /\ [][Next]_vars

\* the steps of Run, of its three goroutines and of one handler
RunStep ==
    \/ RunSetup \/ MainRecv \/ MainCtxClose \/ MainCtxErr \/ MainLoad
    \/ MainWait
TimerStep == TimerFire \/ TimerExit
GraceStep == GraceShutdown \/ GraceExit
ListenerStep == LsnListen \/ LsnClosed \/ LsnSend

\* Every goroutine that can take a step eventually takes one, a timer that
\* was started eventually expires, and a session whose scope is cancelled
\* terminates and deregisters. Nothing makes a signal arrive, a listener
\* fail, a client connect or an uncancelled session end.
Fairness ==
    /\ WF_vars(RunStep)
    /\ WF_vars(TimerStep)
    /\ WF_vars(GraceStep)
    /\ WF_vars(ListenerStep)
    /\ \A s \in Sessions :
         /\ WF_vars(HandleWS(s))
         /\ WF_vars(cctxDone /\ SessionClose(s))

\* Liveness is about a Run whose setup succeeds (a failed setup returns at
\* once); TLS client auth with a readable CA file behaves like no client
\* auth, so one of the two stands for both.
InitServing == Init /\ ~options.EnableTLSClientAuth

FairSpec == InitServing /\ [][Next]_vars /\ Fairness

\* Run up to its select, with every session's termination path taken step
\* by step; a session's scope is cancelled through cctx by the caller or by
\* the timer (what Run does after its select touches no session)
SessionNext ==
    \/ RunSetup
    \/ ParentCancel
    \/ TimerFire
    \/ TimerExit
    \/ LsnListen
    \/ \E s \in Sessions : Accept(s)
    \/ \E s \in Sessions : HandleWS(s)
    \/ \E s \in Sessions : BackendExit(s)
    \/ \E s \in Sessions : RemoteClose(s)
    \/ \E s \in Sessions, p \in Pumps : PumpCancel(s, p)
    \/ \E s \in Sessions : Release(s)
    \/ \E s \in Sessions : SessionEnd(s)

\* one configuration: a timeout, no single use, no TLS client auth
InitSession ==
    /\ Init
    /\ options = [Once |-> FALSE, Timeout |-> 1, EnableTLSClientAuth |-> FALSE]

\* A pump whose scope is cancelled stops, a session whose pumps have
\* stopped releases its resources and then deregisters. Nothing makes a
\* backend exit or a remote close.
SessionFairness ==
    \A s \in Sessions :
        /\ \A p \in Pumps : WF_vars(PumpCancel(s, p))
        /\ WF_vars(Release(s))
        /\ WF_vars(SessionEnd(s))

SessionSpec == InitSession /\ [][SessionNext]_vars /\ SessionFairness

\* the frames that matter to a controller with several connections: the
\* reconnect advertisements and one Output
ControlFrames ==
    {f \in Frames : \/ f.kind = SetReconnect
                    \/ f.kind = Output /\ f.bytes = Base64Encode(<<65>>)}

ClientNext ==
    \/ Open
    \/ \E c \in 1..Len(conns) : OnOpen(c)
    \/ \E c \in 1..Len(conns), data \in ControlFrames : OnReceive(c, data)
    \/ \E c \in 1..Len(conns) : OnClose(c)
    \/ \E i \in 1..Len(timeouts) : TimeoutFire(i)
    \/ \E input \in {"a", "b"} : TermInput(input)
    \/ \E size \in {<<100, 40>>} : TermResize(size[1], size[2])
    \/ MessageTimeout

\* the page alone: a server that is configured and not yet run
InitPage ==
    /\ Init
    /\ options = [Once |-> FALSE, Timeout |-> 0, EnableTLSClientAuth |-> FALSE]

ClientSpec == InitPage /\ [][ClientNext]_vars

\* the page as main.ts runs it: one call of wt.open()
FirstOpen == conns = <<>> /\ Open

\* one connection receiving every kind of frame
ReceiveNext ==
    \/ FirstOpen
    \/ \E c \in 1..Len(conns) : OnOpen(c)
    \/ \E c \in 1..Len(conns), data \in Frames : OnReceive(c, data)
    \/ \E c \in 1..Len(conns) : OnClose(c)

ReceiveSpec == InitPage /\ [][ReceiveNext]_vars

\* ================================================================= claims

Registered == {s \in Sessions : sess[s] = "active"}
Admitted == {s \in Sessions : sess[s] \in {"active", "closed"}}
DrainStarted == pc \in {"wait", "returned"} /\ ret # ErrSetup

\* C1 (as stated): Run has never returned while a registered session has
\* not yet deregistered.
C1_RunReturnsAfterDrain ==
    pc = "returned" => Registered = {}

\* C2 (as stated): Run returns a non-nil error when the timer or a listener
\* failure triggered shutdown, and nil when the graceful signal alone did.
C2_ExitCauseAsStated ==
    pc = "returned" =>
        /\ trigger \in {"timer", "listener"} => ret # Nil
        /\ fired = {"graceful"} => ret = Nil

\* C2 (amended): Run returns a non-nil error when a listener failure
\* triggered shutdown, or when the timer did and the graceful shutdown did
\* not run as well; it returns nil when the graceful signal alone triggered
\* shutdown.
C2_ExitCause ==
    pc = "returned" =>
        /\ trigger = "listener" => ret # Nil
        /\ trigger = "timer" /\ "graceful" \notin fired => ret # Nil
        /\ fired = {"graceful"} => ret = Nil

\* C2 witness: Run has returned nil after a graceful shutdown that had a
\* session to drain.
C2_Witness ==
    /\ pc = "returned"
    /\ fired = {"graceful"}
    /\ ret = Nil
    /\ conn > 0

\* C3 (as stated): whichever trigger initiated shutdown, the listener has
\* stopped accepting and the shared scope is cancelled before Run waits for
\* the drain.
C3_InitiationAsStated ==
    DrainStarted /\ trigger # "none" => ~listening /\ cctxDone

\* C3 (amended): before Run waits for the drain the listener has stopped
\* accepting whichever trigger initiated shutdown; the shared scope is
\* cancelled when the timer or a listener failure initiated it, and is not
\* cancelled when the graceful signal alone did.
C3_Initiation ==
    DrainStarted =>
        /\ trigger # "none"
        /\ ~listening
        /\ trigger \in {"timer", "listener"} => cctxDone
        /\ fired = {"graceful"} => ~cctxDone

\* C3 witness: Run waits for a session after the timer fired; the witness
\* of the graceful case is C2_Witness.
C3_Witness ==
    /\ pc = "wait"
    /\ trigger = "timer"
    /\ branch = "ctx"
    /\ Registered # {}

C5_LivenessAsStated ==
    (trigger # "none") ~> (pc = "returned")

\* C5 (amended): under FairSpec, once shutdown is initiated by the timer or
\* by a listener failure (the triggers that cancel the shared scope), Run
\* eventually returns.
C5_Liveness ==
    (trigger \in {"timer", "listener"}) ~> (pc = "returned")

\* C5 witness: Run has returned after a shutdown by the timer or a listener
\* failure that found sessions to drain.
C5_Witness ==
    /\ pc = "returned"
    /\ trigger \in {"timer", "listener"}
    /\ conn > 0
    /\ ret # Nil

C7_NoLateRegistration ==
    [][\A s \in Sessions :
          sess[s] # "active" /\ sess'[s] = "active" => trigger = "none"]_vars

C9_ReconnectScheduling ==
    /\ [][disconnects' # disconnects =>
            timeouts' = IF reconnect # <<>> /\ reconnect[1] > 0
                        THEN Append(timeouts, [callback |-> "WebTTY.open",
                                               delay |-> reconnect[1] * 1000])
                        ELSE timeouts]_vars
    /\ [][Len(timeouts') < Len(timeouts) => Len(conns') = Len(conns) + 1]_vars

\* C10: on every connection the first message sent is the handshake and
\* it is sent once; nothing is sent on a connection, nor lost on it, while
\* it is not open yet.
C10_HandshakeFirst ==
    \A c \in 1..Len(conns) :
        /\ conns[c].sent # <<>> => conns[c].sent[1] = Handshake
        /\ \A i \in 2..Len(conns[c].sent) : conns[c].sent[i] # Handshake
        /\ conns[c].state = "opening" =>
               conns[c].sent = <<>> /\ conns[c].lost = 0
        /\ conns[c].state = "open" => conns[c].sent # <<>>

\* C10 witness: a second connection carries the handshake and then a frame
\* of a terminal event, after an earlier event that reached only the first.
C10_Witness ==
    /\ Len(conns) >= 2
    /\ Len(conns[2].sent) >= 2
    /\ conns[2].sent[1] = Handshake
    /\ conns[2].sent[2].kind \in {Input, ResizeTerminal}
    /\ Len(conns[1].sent) >= 3

\* the UTF-8 encoding of a text (a sequence of code points)
RECURSIVE Utf8Encode(_)
Utf8Encode(cps) ==
    IF cps = <<>> THEN <<>>
    ELSE LET cp == Head(cps)
         IN (IF cp < 128 THEN <<cp>>
             ELSE IF cp < 2048 THEN <<192 + cp \div 64, 128 + (cp % 64)>>
             ELSE IF cp < 65536
             THEN <<224 + cp \div 4096, 128 + ((cp \div 64) % 64), 128 + (cp % 64)>>
             ELSE <<240 + cp \div 262144, 128 + ((cp \div 4096) % 64),
                    128 + ((cp \div 64) % 64), 128 + (cp % 64)>>)
            \o Utf8Encode(Tail(cps))

\* a step in which the onReceive callback consumed a frame
Received == events' # events /\ last'.src = "frame"

\* C11 (as stated): for every byte sequence b, receiving the encoded Output
\* frame of b never fails and writes to the terminal exactly one text, whose
\* bytes are b.
C11_OutputRoundTrip ==
    [][Received /\ last'.data.kind = Output =>
         \A b \in ByteSeqs :
            last'.data.bytes = Base64Encode(b) =>
               /\ uncaught' = uncaught
               /\ Len(termWrites') = Len(termWrites) + 1
               /\ SubSeq(termWrites', 1, Len(termWrites)) = termWrites
               /\ Utf8Encode(termWrites'[Len(termWrites')]) = b]_vars

\* the first characters the onReceive callback has a case for
ServerKinds == {Output, Pong, SetWindowTitle, SetPreferences, SetReconnect}

\* C12: receiving a frame whose first character is not a server-to-client
\* kind changes nothing (no terminal write, no title or preference change,
\* same stored reconnect value, nothing thrown, nothing scheduled or shown)
\* and leaves every connection as it was, so that later frames are handled
\* as before.
C12_UnknownTolerated ==
    [][Received /\ last'.data.kind \notin ServerKinds =>
         /\ termWrites' = termWrites
         /\ title' = title
         /\ prefs' = prefs
         /\ reconnect' = reconnect
         /\ uncaught' = uncaught
         /\ conns' = conns
         /\ timeouts' = timeouts
         /\ message' = message
         /\ disconnects' = disconnects
         /\ inputHandlers' = inputHandlers
         /\ resizeHandlers' = resizeHandlers]_vars

\* C12 witness: an unknown frame was consumed last, after an Output frame
\* whose text is still the only terminal write, and the connection it came
\* on is open.
C12_Witness ==
    /\ last.src = "frame"
    /\ last.data.kind = "9"
    /\ events = 2
    /\ Len(termWrites) = 1
    /\ \E c \in 1..Len(conns) : conns[c].state = "open"

\* a step in which some connection closes
Closes == \E c \in 1..Len(conns) :
             conns[c].state # "closed" /\ conns'[c].state = "closed"

\* C13: every close of a connection, opening or open, retry or not, shows
\* "disconnected" (one showMessage call), and a retry is scheduled exactly
\* when the stored reconnect value is defined and positive.
C13_DisconnectShown ==
    [][Closes =>
         /\ message' = "disconnected"
         /\ disconnects' = disconnects + 1
         /\ Len(timeouts') = Len(timeouts)
                             + (IF reconnect # <<>> /\ reconnect[1] > 0
                                THEN 1 ELSE 0)]_vars

\* C13 witness: two connections have closed, one with a retry scheduled and
\* one without, and the indication is shown.
C13_Witness ==
    /\ disconnects = 2
    /\ Len(timeouts) = 1
    /\ windowOpens = 0
    /\ message = "disconnected"
    /\ \A c \in 1..Len(conns) : conns[c].state = "closed"

C15_CauseIsTrigger ==
    pc = "returned" /\ branch # "none" =>
        /\ fired # {} /\ fired \subseteq {"timer", "parent"} => ret = ErrCanceled
        /\ fired = {"listener"} => ret = ErrListen

\* a step in which the terminal emitted an input or a resize event
TermEvent == events' # events /\ last'.src \in {"input", "resize"}

\* the frame the event consumed last stands for
EventFrame(ev) ==
    IF ev.src = "input" THEN InputFrame(ev.data.text)
    ELSE ResizeFrame(ev.data.bytes[1], ev.data.bytes[2])

\* C16 (as stated): whatever number of open() calls came before, a terminal
\* event that finds a connection open appends exactly one frame, the
\* event's own, to what was sent on one open connection, touches no other
\* connection and writes nothing to the terminal.
C16_OneFramePerEvent ==
    [][TermEvent /\ (\E c \in 1..Len(conns) : conns[c].state = "open") =>
         /\ termWrites' = termWrites
         /\ \E c \in 1..Len(conns) :
               /\ conns[c].state = "open"
               /\ conns'[c] = [conns[c] EXCEPT
                                  !.sent = Append(@, EventFrame(last'))]
               /\ \A d \in 1..Len(conns) : d # c => conns'[d] = conns[d]]_vars

\* the timer wait has one outcome, and it is final: the timer fired and the
\* scope was cancelled by it, once; or the scope was cancelled first and the
\* waiter exited without cancelling or initiating anything
OneTimerOutcome ==
    /\ [][(timerPc = "fired" \/ timerPc = "exited") => timerPc' = timerPc]_vars
    /\ [][timerPc = "waiting" /\ timerPc' = "fired" =>
            cctxDone' /\ "timer" \notin fired /\ "timer" \in fired']_vars
    /\ [][timerPc = "waiting" /\ timerPc' = "exited" =>
            cctxDone /\ cctxDone' /\ fired' = fired /\ trigger' = trigger]_vars

\* C17 (as stated): the timer wait has exactly one outcome, fire and cancel
\* once or exit without acting; and when the graceful signal initiated
\* shutdown and the timer fired after it, Run still returns nil.
C17_TimerOutcomeAsStated ==
    /\ OneTimerOutcome
    /\ [](pc = "returned" /\ trigger = "graceful" /\ "timer" \in fired =>
             ret = Nil)

\* C17 (amended): the timer wait has exactly one outcome, fire and cancel
\* once or exit without acting; and when the graceful signal initiated
\* shutdown and Run's select took the listener's result, Run returns nil
\* whether or not the timer fired afterwards.
C17_TimerOutcome ==
    /\ OneTimerOutcome
    /\ [](pc = "returned" /\ trigger = "graceful" /\ branch = "listenErr" =>
             ret = Nil)

\* C17 witness: Run has returned nil after a graceful shutdown although the
\* timer fired after the shutdown was initiated.
C17_Witness ==
    /\ pc = "returned"
    /\ trigger = "graceful"
    /\ timerPc = "fired"
    /\ branch = "listenErr"
    /\ ret = Nil

\* C18: the listener goroutine sends at most one error on listenErr (only
\* in its one step from "send" to "done", which is final), the send never
\* finds the channel full or the error nil, and once shutdown is initiated
\* the listener goroutine terminates, also when Run took the cancellation
\* case and never receives.
C18_ListenerTerminates ==
    /\ [](lsnPc = "send" => listenErr = <<>> /\ err # Nil)
    /\ [](Len(listenErr) <= 1)
    /\ [][Len(listenErr') > Len(listenErr) =>
            lsnPc = "send" /\ lsnPc' = "done"]_vars
    /\ [][lsnPc = "done" => lsnPc' = "done"]_vars
    /\ (trigger # "none") ~> (lsnPc = "done")

\* C18 witness: Run took the cancellation case and has returned; the
\* listener goroutine has terminated and its error is still in the channel.
C18_Witness ==
    /\ pc = "returned"
    /\ branch = "ctx"
    /\ lsnPc = "done"
    /\ Len(listenErr) = 1

\* C19: Run fails at setup exactly when TLS client auth is enabled and its
\* configuration cannot be built; it then returns the setup error at once:
\* no timer, listener goroutine or graceful waiter was started, the select
\* and the drain wait were never reached, nothing listens and no session
\* was accepted or admitted.
C19_SetupFailure ==
    /\ (pc # "start" /\ options.EnableTLSClientAuth /\ ~caFileOK)
          <=> (ret = ErrSetup)
    /\ ret = ErrSetup =>
          /\ pc = "returned"
          /\ ret # Nil
          /\ timerStarted = 0
          /\ timerPc = "none"
          /\ lsnPc = "none"
          /\ gracePc = "none"
          /\ branch = "none"
          /\ ~listening
          /\ ~srvClosed
          /\ listenErr = <<>>
          /\ wg = 0
          /\ connections = 0
          /\ \A s \in Sessions : sess[s] = "idle"

\* C19 witness: Run has returned the setup error of a server configured
\* with a timeout.
C19_Witness ==
    /\ pc = "returned"
    /\ ret = ErrSetup
    /\ options.Timeout > 0
    /\ options.EnableTLSClientAuth
    /\ ~caFileOK

====
